---- MODULE Spec2Model ----
(***************************************************************************)
(* A model of pennylane_aqt/device.py: the AQTDevice plugin that           *)
(* translates PennyLane operations into an AQT circuit, submits it to the  *)
(* gateway over HTTP, polls for completion and unpacks the samples.        *)
(***************************************************************************)
EXTENDS Integers, Sequences, FiniteSets, TLC

VARIABLES
    num_wires,       \* QubitDevice.num_wires, set by the constructor
    shots,           \* self.shots
    _initial_shots,  \* self._initial_shots
    _api_key,        \* self._api_key
    header,          \* self.header
    data,            \* self.data
    circuit,         \* self.circuit
    circuit_json,    \* self.circuit_json, a JSON text as a sequence of tokens
    samples,         \* self.samples: None or Some(list of integers)
    pc,              \* where the caller stands: "idle", or inside apply() at
                     \* "apply" (entered), "submitted", "polling"
    response,        \* apply()'s local response: the submission's response
    job,             \* apply()'s local job: the last decoded response
    job_query_data,  \* apply()'s local job_query_data
    http,            \* the HTTP calls made by the current (or last) apply()
    lastCall,        \* the last method called and how it ended
    args,            \* apply()'s operations and rotations, while it runs
    result           \* the value returned by the last generate_samples()

vars == <<num_wires, shots, _initial_shots, _api_key, header, data, circuit,
          circuit_json, samples, pc, response, job, job_query_data, http,
          lastCall, args, result>>

----------------------------------------------------------------------------
(* Bounds of the model.                                                    *)

MaxOps == 2          \* Spec: length of the operations argument
MaxRots == 1         \* Spec: length of the rotations argument
MaxCircuit == 3      \* Spec: apply() is not entered if the buffer could outgrow this
MaxDefer == 1        \* Spec: the gateway answers "not finished" at most this often
MaxShots == 2        \* SpecProtocol: shot counts range over 1..MaxShots
MaxPolls == 2        \* SpecProtocol: "not finished" answers per apply()
MaxProtoOps == 2     \* SpecProtocol: length of the operations argument
MaxProtoCircuit == 2 \* SpecProtocol: bound of the buffer
MaxGateCircuit == 2  \* SpecGates: bound of the buffer
MaxSampleWires == 3  \* SpecSamples: wires of the device
MaxSampleShots == 2  \* SpecSamples: shot counts

----------------------------------------------------------------------------
(* Python's None for an attribute that otherwise holds a list, and for a   *)
(* name.  An empty string is the empty sequence of tokens.                 *)

None == <<>>
Some(x) == <<x>>
NoneName == "None"
EmptyString == <<>>

(* Real numbers.  <<h, e>> is (h / 2) * pi^e: every number the device      *)
(* computes is a half-integer multiple of a power of pi.                   *)

Zero == <<0, 0>>
np_pi == <<2, 1>>
Half == <<1, 0>>
One == <<2, 0>>

Norm(a) == IF a[1] = 0 THEN Zero ELSE a

Mul(a, b) == Norm(<<(a[1] * b[1]) \div 2, a[2] + b[2]>>)

Div(a, b) == Norm(<<(2 * a[1]) \div b[1], a[2] - b[2]>>)

----------------------------------------------------------------------------
(* The gate-name table.                                                    *)

_operation_map ==
    [RX |-> "X", RY |-> "Y", RZ |-> "Z",
     BasisState |-> NoneName, PauliX |-> NoneName, PauliY |-> NoneName,
     PauliZ |-> NoneName, Hadamard |-> NoneName,
     R |-> "R", MS |-> "MS"]

operations == DOMAIN _operation_map

(* What a translation step returns: the buffer and the exception raised.   *)
Ok(c) == [circuit |-> c, error |-> "none"]
Raise(c, e) == [circuit |-> c, error |-> e]

(* par after lines 172-175: None, parameters[0], or the parameter list.    *)
ParOf(operation) ==
    IF Len(operation.parameters) = 1
    THEN [kind |-> "scalar", v |-> operation.parameters[1]]
    ELSE IF Len(operation.parameters) = 2
         THEN [kind |-> "list", v |-> operation.parameters]
         ELSE [kind |-> "none", v |-> <<>>]

Scalar(x) == [kind |-> "scalar", v |-> x]

(* A faulty variant: the angle is stored undivided.                       *)
_append_op_to_queue_nodiv(c, op_name, par, wires) ==
    IF par.kind # "scalar" THEN Raise(c, "TypeError")
    ELSE IF op_name \notin DOMAIN _operation_map THEN Raise(c, "KeyError")
    ELSE Ok(Append(c, [gate |-> _operation_map[op_name],
                       pars |-> <<par.v>>,
                       wires |-> wires]))

(* par / np.pi is a TypeError on None and on a list; the lookup of a name  *)
(* without an entry is a KeyError.                                         *)
_append_op_to_queue(c, op_name, par, wires) ==
    IF par.kind # "scalar" THEN Raise(c, "TypeError")
    ELSE IF op_name \notin DOMAIN _operation_map THEN Raise(c, "KeyError")
    ELSE Ok(Append(c, [gate |-> _operation_map[op_name],
                       pars |-> <<Div(par.v, np_pi)>>,
                       wires |-> wires]))

(* A faulty variant: an RX(pi) for every wire, set bit or not.            *)
RECURSIVE BasisStateLoop_everybit(_, _, _, _)
BasisStateLoop_everybit(c, bits, wires, i) ==
    IF i > Len(bits) \/ i > Len(wires) THEN Ok(c)
    ELSE LET r == _append_op_to_queue(c, "RX", Scalar(np_pi), <<wires[i]>>)
         IN  IF r.error # "none" THEN r
             ELSE BasisStateLoop_everybit(r.circuit, bits, wires, i + 1)

(* for bit, wire in zip(par, wires): if bit == 1: queue an RX(pi).          *)
RECURSIVE BasisStateLoop(_, _, _, _)
BasisStateLoop(c, bits, wires, i) ==
    IF i > Len(bits) \/ i > Len(wires) THEN Ok(c)
    ELSE IF bits[i] = 1
         THEN LET r == _append_op_to_queue(c, "RX", Scalar(np_pi), <<wires[i]>>)
              IN  IF r.error # "none" THEN r
                  ELSE BasisStateLoop(r.circuit, bits, wires, i + 1)
         ELSE BasisStateLoop(c, bits, wires, i + 1)

(* op_name[-1] of the three Pauli names.                                   *)
LastLetter == [PauliX |-> "X", PauliY |-> "Y", PauliZ |-> "Z"]

(* A faulty variant: Hadamard and the Paulis keep their names.            *)
_apply_operation_keeps_name(c, operation) ==
    LET op_name == operation.name
        par == ParOf(operation)
        wires == operation.wires
    IN  IF op_name = "R"
        THEN IF par.kind # "list" THEN Raise(c, "TypeError")
             ELSE Ok(Append(c, [gate |-> op_name,
                                pars |-> <<par.v[1], par.v[2]>>,
                                wires |-> wires]))
        ELSE IF op_name = "BasisState"
        THEN IF par.kind = "none" THEN Raise(c, "TypeError")
             ELSE BasisStateLoop(c, par.v, wires, 1)
        ELSE IF op_name = "Hadamard"
        THEN _append_op_to_queue(c, op_name, Scalar(Mul(Half, np_pi)), wires)
        ELSE IF op_name \in {"PauliX", "PauliY", "PauliZ"}
        THEN _append_op_to_queue(c, op_name, Scalar(np_pi), wires)
        ELSE IF op_name = "MS"
        THEN IF par.kind # "scalar" THEN Raise(c, "TypeError")
             ELSE _append_op_to_queue(c, op_name, Scalar(Mul(par.v, np_pi)), wires)
        ELSE _append_op_to_queue(c, op_name, par, wires)

_apply_operation(c, operation) ==
    LET op_name == operation.name
        par == ParOf(operation)
        wires == operation.wires
    IN  IF op_name = "R"
        THEN IF par.kind # "list" THEN Raise(c, "TypeError")
             ELSE Ok(Append(c, [gate |-> op_name,
                                pars |-> <<par.v[1], par.v[2]>>,
                                wires |-> wires]))
        ELSE IF op_name = "BasisState"
        THEN IF par.kind = "none" THEN Raise(c, "TypeError")
             ELSE BasisStateLoop(c, par.v, wires, 1)
        ELSE IF op_name = "Hadamard"
        THEN _append_op_to_queue(c, "RY", Scalar(Mul(Half, np_pi)), wires)
        ELSE IF op_name \in {"PauliX", "PauliY", "PauliZ"}
        THEN _append_op_to_queue(c, "R" \o LastLetter[op_name], Scalar(np_pi), wires)
        ELSE IF op_name = "MS"
        THEN IF par.kind # "scalar" THEN Raise(c, "TypeError")
             ELSE _append_op_to_queue(c, op_name, Scalar(Mul(par.v, np_pi)), wires)
        ELSE _append_op_to_queue(c, op_name, par, wires)

(* The first loop of apply(): the ordering check, then the translation.    *)
RECURSIVE ApplyOperations(_, _, _)
ApplyOperations(c, ops, i) ==
    IF i > Len(ops) THEN Ok(c)
    ELSE IF i > 1 /\ ops[i].name \in {"BasisState", "QubitStateVector"}
         THEN Raise(c, "DeviceError")
         ELSE LET r == _apply_operation(c, ops[i])
              IN  IF r.error # "none" THEN r
                  ELSE ApplyOperations(r.circuit, ops, i + 1)

(* The second loop of apply(): the diagonalizing rotations.                *)
RECURSIVE ApplyRotations(_, _, _)
ApplyRotations(c, rots, i) ==
    IF i > Len(rots) THEN Ok(c)
    ELSE LET r == _apply_operation(c, rots[i])
         IN  IF r.error # "none" THEN r
             ELSE ApplyRotations(r.circuit, rots, i + 1)

Translate(c, ops, rots) ==
    LET r == ApplyOperations(c, ops, 1)
    IN  IF r.error # "none" THEN r ELSE ApplyRotations(r.circuit, rots, 1)

----------------------------------------------------------------------------
(* json.dumps(circuit), as the sequence of the JSON text's tokens.         *)

NumTok(a) == ToString(a[1]) \o "/2*pi^" \o ToString(a[2])

StrTok(s) == IF s = NoneName THEN "null" ELSE "\"" \o s \o "\""

RECURSIVE JoinInts(_, _)
JoinInts(w, i) ==
    IF i > Len(w) THEN <<>>
    ELSE (IF i > 1 THEN <<",">> ELSE <<>>) \o <<ToString(w[i])>> \o JoinInts(w, i + 1)

RECURSIVE JoinPars(_, _)
JoinPars(p, i) ==
    IF i > Len(p) THEN <<>>
    ELSE <<",", NumTok(p[i])>> \o JoinPars(p, i + 1)

EntryTokens(e) ==
    <<"[", StrTok(e.gate)>> \o JoinPars(e.pars, 1)
        \o <<",", "[">> \o JoinInts(e.wires, 1) \o <<"]", "]">>

RECURSIVE JoinEntries(_, _)
JoinEntries(c, i) ==
    IF i > Len(c) THEN <<>>
    ELSE (IF i > 1 THEN <<",">> ELSE <<>>) \o EntryTokens(c[i]) \o JoinEntries(c, i + 1)

serialize(c) == <<"[">> \o JoinEntries(c, 1) \o <<"]">>

----------------------------------------------------------------------------
(* The api_client module: submit() performs one HTTP call and returns the  *)
(* response; a response is valid when its status is a success status; an   *)
(* invalid one is turned into an exception.                                *)

valid_status_code(r) == r.status_code \in 200..299

raise_invalid_status_exception(r) == "InvalidStatusError"

submit(log, body) == Append(log, [body |-> body, header |-> header])

NoJob == [id |-> "", status |-> "", samples |-> <<>>]
NoResponse == [status_code |-> 0, json |-> NoJob]
NoQuery == [id |-> "", access_token |-> ""]
NoArgs == [operations |-> <<>>, rotations |-> <<>>]

----------------------------------------------------------------------------
(* set_api_configs(): the key is kept (a constructed device has one), and  *)
(* header and data are rebuilt from it.                                    *)

set_api_configs ==
    /\ _api_key' = _api_key
    /\ header' = [Ocp_Apim_Subscription_Key |-> _api_key]
    /\ data' = [access_token |-> _api_key, no_qubits |-> num_wires]

(* A new call: the locals and the record of the previous apply() are gone. *)
Forget ==
    /\ response' = NoResponse /\ job' = NoJob /\ job_query_data' = NoQuery
    /\ http' = <<>> /\ args' = NoArgs

NewCall(name) ==
    /\ lastCall' = [name |-> name, error |-> "none"]
    /\ result' = <<>>
    /\ Forget

(* A faulty variant: reset() keeps the cached samples.                    *)
reset_keeps_samples ==
    /\ pc = "idle"
    /\ shots' = _initial_shots
    /\ circuit' = <<>>
    /\ circuit_json' = EmptyString
    /\ samples' = samples
    /\ set_api_configs
    /\ NewCall("reset")
    /\ UNCHANGED <<num_wires, _initial_shots, pc>>

(* reset()                                                                 *)
reset ==
    /\ pc = "idle"
    /\ shots' = _initial_shots
    /\ circuit' = <<>>
    /\ circuit_json' = EmptyString
    /\ samples' = None
    /\ set_api_configs
    /\ NewCall("reset")
    /\ UNCHANGED <<num_wires, _initial_shots, pc>>

(* An assignment to the shots attribute between two calls.                 *)
set_shots(s) ==
    /\ pc = "idle"
    /\ shots' = s
    /\ NewCall("set_shots")
    /\ UNCHANGED <<num_wires, _initial_shots, _api_key, header, data, circuit,
                   circuit_json, samples, pc>>

(* apply() is entered: operations and rotations are bound.                 *)
apply_enter(ops, rots) ==
    /\ pc = "idle"
    /\ pc' = "apply"
    /\ args' = [operations |-> ops, rotations |-> rots]
    /\ lastCall' = [name |-> "apply", error |-> "pending"]
    /\ response' = NoResponse /\ job' = NoJob /\ job_query_data' = NoQuery
    /\ http' = <<>> /\ result' = <<>>
    /\ UNCHANGED <<num_wires, shots, _initial_shots, _api_key, header, data,
                   circuit, circuit_json, samples>>

(* apply(), up to the submission call: translate, serialize, submit.       *)
apply_submit_from(c) ==
    LET r == Translate(c, args.operations, args.rotations)
    IN  /\ pc = "apply"
        /\ circuit' = r.circuit
        /\ args' = NoArgs
        /\ IF r.error # "none"
           THEN /\ lastCall' = [name |-> "apply", error |-> r.error]
                /\ pc' = "idle"
                /\ UNCHANGED <<circuit_json, data, http>>
           ELSE /\ circuit_json' = serialize(r.circuit)
                /\ data' = [k \in DOMAIN data \cup {"repetitions"} |->
                               IF k = "repetitions" THEN shots ELSE data[k]]
                /\ http' = submit(http, [k \in DOMAIN data' \cup {"data"} |->
                               IF k = "data" THEN circuit_json' ELSE data'[k]])
                /\ pc' = "submitted"
                /\ UNCHANGED lastCall
        /\ UNCHANGED <<num_wires, shots, _initial_shots, _api_key, header, samples,
                       response, job, job_query_data, result>>

(* A faulty variant: apply() starts from an empty buffer.                 *)
apply_submit_cleared == apply_submit_from(<<>>)

apply_submit == apply_submit_from(circuit)

(* The head of the poll loop, entered with the decoded response j: poll    *)
(* again unless the status is "finished", else store the samples.          *)
poll_loop(j, query) ==
    /\ job' = j
    /\ IF j.status # "finished"
       THEN /\ http' = submit(http, query)
            /\ pc' = "polling"
            /\ UNCHANGED <<samples, lastCall>>
       ELSE /\ samples' = Some(j.samples)
            /\ pc' = "idle"
            /\ lastCall' = [name |-> "apply", error |-> "none"]
            /\ UNCHANGED http

(* A faulty variant: the status code is not looked at.                    *)
apply_response_unchecked(r) ==
    /\ pc = "submitted"
    /\ response' = r
    /\ job_query_data' = [id |-> r.json.id, access_token |-> _api_key]
    /\ poll_loop(r.json, job_query_data')
    /\ UNCHANGED <<num_wires, shots, _initial_shots, _api_key, header, data,
                   circuit, circuit_json, args, result>>

(* apply(), from the submission's response to the first pass of the loop.  *)
apply_response(r) ==
    /\ pc = "submitted"
    /\ response' = r
    /\ IF ~valid_status_code(r)
       THEN /\ lastCall' = [name |-> "apply",
                            error |-> raise_invalid_status_exception(r)]
            /\ pc' = "idle"
            /\ UNCHANGED <<job, job_query_data, http, samples>>
       ELSE /\ job_query_data' = [id |-> r.json.id, access_token |-> _api_key]
            /\ poll_loop(r.json, job_query_data')
    /\ UNCHANGED <<num_wires, shots, _initial_shots, _api_key, header, data,
                   circuit, circuit_json, args, result>>

(* A faulty variant: the next poll carries the last response's id.        *)
apply_poll_latest_id(j) ==
    /\ pc = "polling"
    /\ UNCHANGED <<job_query_data, response>>
    /\ poll_loop(j, [id |-> j.id, access_token |-> _api_key])
    /\ UNCHANGED <<num_wires, shots, _initial_shots, _api_key, header, data,
                   circuit, circuit_json, args, result>>

(* apply(), one turn of the poll loop: the poll's response arrives.        *)
apply_poll(j) ==
    /\ pc = "polling"
    /\ UNCHANGED <<job_query_data, response>>
    /\ poll_loop(j, job_query_data)
    /\ UNCHANGED <<num_wires, shots, _initial_shots, _api_key, header, data,
                   circuit, circuit_json, args, result>>

----------------------------------------------------------------------------
(* generate_samples(): np.unravel_index(samples, [2] * num_wires,          *)
(* order="F"), stacked and transposed.                                     *)

RECURSIVE Pow2(_)
Pow2(k) == IF k = 0 THEN 1 ELSE 2 * Pow2(k - 1)

(* The coordinates of one flat index, first axis first.  In "F" order the  *)
(* first axis varies fastest: peel the axes off from the front.            *)
RECURSIVE UnravelF(_, _)
UnravelF(val, shape) ==
    IF shape = <<>> THEN <<>>
    ELSE <<val % Head(shape)>> \o UnravelF(val \div Head(shape), Tail(shape))

(* A faulty variant: order "C", where the last axis varies fastest.        *)
RECURSIVE UnravelC(_, _)
UnravelC(val, shape) ==
    IF shape = <<>> THEN <<>>
    ELSE UnravelC(val \div shape[Len(shape)], SubSeq(shape, 1, Len(shape) - 1))
             \o <<val % shape[Len(shape)]>>

unravel_index_C(indices, shape) ==
    [k \in 1..Len(shape) |-> [j \in 1..Len(indices) |-> UnravelC(indices[j], shape)[k]]]

(* One array per axis, each as long as the index list.                     *)
unravel_index(indices, shape) ==
    [k \in 1..Len(shape) |-> [j \in 1..Len(indices) |-> UnravelF(indices[j], shape)[k]]]

(* np.stack(...).T of n arrays of the given length.                        *)
StackT(arrays, length) ==
    [j \in 1..length |-> [k \in 1..Len(arrays) |-> arrays[k][j]]]

InRange(s, n) == \A j \in 1..Len(s) : s[j] \in 0..(Pow2(n) - 1)

generate_samples ==
    /\ pc = "idle"
    /\ Forget
    /\ IF samples = None
       THEN /\ result' = <<>>
            /\ lastCall' = [name |-> "generate_samples", error |-> "TypeError"]
       ELSE IF ~InRange(samples[1], num_wires)
       THEN /\ result' = <<>>
            /\ lastCall' = [name |-> "generate_samples", error |-> "ValueError"]
       ELSE /\ result' = StackT(unravel_index(samples[1], [i \in 1..num_wires |-> 2]),
                                Len(samples[1]))
            /\ lastCall' = [name |-> "generate_samples", error |-> "none"]
    /\ UNCHANGED <<num_wires, shots, _initial_shots, _api_key, header, data,
                   circuit, circuit_json, samples, pc>>

----------------------------------------------------------------------------
(* The inputs.                                                             *)

Op(name, parameters, wires) ==
    [name |-> name, parameters |-> parameters, wires |-> wires]

AllWires(n) == [i \in 1..n |-> i - 1]
BitVectors(n) == [1..n -> {0, 1}]

(* pi/2 as a framework angle.                                              *)
HalfPi == <<1, 1>>

(* Operations without an entry in the table, with 0, 1 and 2 parameters.   *)
UnmappedOps ==
    {Op("S", <<>>, <<0>>), Op("PhaseShift", <<HalfPi>>, <<0>>),
     Op("U2", <<HalfPi, Zero>>, <<0>>)}

ApiKeys == {"key"}
StatusCodes == {200, 401, 500}

(* The job records the gateway may answer with: a sample list has one      *)
(* value per repetition.                                                   *)
Jobs(ids, statuses, reps, values) ==
    {[id |-> i, status |-> st, samples |-> <<>>] :
        i \in ids, st \in statuses \ {"finished"}}
    \cup {[id |-> i, status |-> "finished", samples |-> s] :
        i \in ids, s \in [1..reps -> values]}

Responses(codes, jobs) ==
    {[status_code |-> c, json |-> NoJob] : c \in {c \in codes : c \notin 200..299}}
    \cup {[status_code |-> c, json |-> j] : c \in {c \in codes : c \in 200..299}, j \in jobs}

(* May the gateway answer j now?  It defers at most maxPolls times.        *)
MayAnswer(j, maxPolls) == j.status = "finished" \/ Len(http) <= maxPolls

(* The buffer stays within the model's bound whatever the call appends:   *)
(* an operation appends at most one entry, BasisState one per wire.        *)
RECURSIVE MostEntries(_)
MostEntries(ops) ==
    IF ops = <<>> THEN 0
    ELSE (IF Head(ops).name = "BasisState" THEN Len(Head(ops).wires) ELSE 1)
             + MostEntries(Tail(ops))

Fits(ops, rots, maxCircuit) ==
    Len(circuit) + MostEntries(ops) + MostEntries(rots) <= maxCircuit

----------------------------------------------------------------------------
(* AQTDevice(wires, shots, api_key): the state after construction.         *)

Constructed(n, s, key) ==
    /\ num_wires = n
    /\ shots = s
    /\ _initial_shots = s
    /\ _api_key = key
    /\ circuit = <<>>
    /\ circuit_json = EmptyString
    /\ samples = None
    /\ header = [Ocp_Apim_Subscription_Key |-> key]
    /\ data = [access_token |-> key, no_qubits |-> n]
    /\ pc = "idle"
    /\ response = NoResponse
    /\ job = NoJob
    /\ job_query_data = NoQuery
    /\ http = <<>>
    /\ lastCall = [name |-> "__init__", error |-> "none"]
    /\ args = NoArgs
    /\ result = <<>>

(* The steps of a device whose callers and gateway draw from given sets.   *)
ApplyEnter(opSet, maxOps, rotSet, maxRots, maxCircuit) ==
    \E k \in 0..maxOps, m \in 0..maxRots :
        /\ Len(circuit) + k + m <= maxCircuit
        /\ \E ops \in [1..k -> opSet], rots \in [1..m -> rotSet] :
            /\ Fits(ops, rots, maxCircuit)
            /\ apply_enter(ops, rots)

ApplySubmit == apply_submit

ApplyResponse(ids, codes, statuses, values, maxPolls) ==
    /\ pc = "submitted"
    /\ \E r \in Responses(codes, Jobs(ids, statuses, data.repetitions, values)) :
        /\ MayAnswer(r.json, maxPolls)
        /\ apply_response(r)

ApplyPoll(ids, statuses, values, maxPolls) ==
    /\ pc = "polling"
    /\ \E j \in Jobs(ids, statuses, data.repetitions, values) :
        /\ MayAnswer(j, maxPolls)
        /\ apply_poll(j)

Reset == reset

SetShots(shotSet) == \E s \in shotSet : set_shots(s)

GenerateSamples == generate_samples

----------------------------------------------------------------------------
(* Spec: a one-wire, one-shot device driven with well- and ill-formed      *)
(* operation lists and rotations; the gateway knows one job id.            *)

SpecOps ==
    {Op("RX", <<HalfPi>>, <<0>>), Op("BasisState", <<<<1>>>>, <<0>>),
     Op("QubitStateVector", <<<<1, 0>>>>, <<0>>)} \cup UnmappedOps

SpecRots == {Op("Hadamard", <<>>, <<0>>), Op("S", <<>>, <<0>>)}

Init == Constructed(1, 1, "key")

Next ==
    \/ ApplyEnter(SpecOps, MaxOps, SpecRots, MaxRots, MaxCircuit)
    \/ ApplySubmit
    \/ ApplyResponse({"job1"}, {200, 500}, {"queued", "finished"}, {0, 1}, MaxDefer)
    \/ ApplyPoll({"job1"}, {"queued", "finished"}, {0, 1}, MaxDefer)
    \/ Reset

Spec == Init /\ [][Next]_vars

----------------------------------------------------------------------------
(* SpecProtocol: a one-wire device with any shot count, driven with short  *)
(* operation lists; the gateway answers with any status code, job id,      *)
(* status and samples.                                                     *)

ProtoOps == {Op("RX", <<HalfPi>>, <<0>>), Op("S", <<>>, <<0>>)}

JobIds == {"job1", "job2"}
Statuses == {"queued", "error", "finished"}

InitProtocol == \E s \in 1..MaxShots : Constructed(1, s, "key")

NextProtocol ==
    \/ ApplyEnter(ProtoOps, MaxProtoOps, {}, 0, MaxProtoCircuit)
    \/ ApplySubmit
    \/ ApplyResponse(JobIds, StatusCodes, Statuses, {0, 1}, MaxPolls)
    \/ ApplyPoll(JobIds, Statuses, {0, 1}, MaxPolls)
    \/ Reset
    \/ SetShots(1..MaxShots)
    \/ GenerateSamples

SpecProtocol == InitProtocol /\ [][NextProtocol]_vars

(* apply() runs on once entered, and the gateway answers every call: the   *)
(* HTTP client blocks until the response is there.                         *)
SpecProtocolFair ==
    /\ SpecProtocol
    /\ WF_vars(ApplySubmit)
    /\ WF_vars(ApplyResponse(JobIds, StatusCodes, Statuses, {0, 1}, MaxPolls))
    /\ WF_vars(ApplyPoll(JobIds, Statuses, {0, 1}, MaxPolls))

----------------------------------------------------------------------------
(* SpecGates: a two-wire device given one operation per apply(), from      *)
(* every kind of gate; the gateway finishes every job at once.             *)

Angles == {Zero, HalfPi, One}

WireLists == {<<0>>, <<1>>, <<0, 1>>, <<1, 0>>}

GateOps ==
    {Op(g, <<a>>, <<0>>) : g \in {"RX", "RY", "RZ"}, a \in Angles}
    \cup {Op("R", <<HalfPi, One>>, <<0>>), Op("R", <<Zero, Zero>>, <<1>>)}
    \cup {Op("MS", <<a>>, <<0, 1>>) : a \in {Zero, Half}}
    \cup {Op(g, <<>>, <<1>>) : g \in {"Hadamard", "PauliX", "PauliY", "PauliZ"}}
    \cup UNION {{Op("BasisState", <<b>>, w) : b \in BitVectors(Len(w))} : w \in WireLists}
    \cup UnmappedOps

InitGates == Constructed(2, 1, "key")

NextGates ==
    \/ ApplyEnter(GateOps, 1, {}, 0, MaxGateCircuit)
    \/ ApplySubmit
    \/ ApplyResponse({"job1"}, {200}, {"finished"}, {0}, 0)
    \/ Reset

SpecGates == InitGates /\ [][NextGates]_vars

----------------------------------------------------------------------------
(* SpecSamples: devices of 1..MaxSampleWires wires that run the empty      *)
(* circuit, after construction or a reset; the gateway returns samples in  *)
(* 0..2^num_wires, so that a value may also be out of range.               *)

InitSamples ==
    \E n \in 1..MaxSampleWires, s \in 1..MaxSampleShots : Constructed(n, s, "key")

NextSamples ==
    \/ (samples = None /\ ApplyEnter({}, 0, {}, 0, 0))
    \/ ApplySubmit
    \/ ApplyResponse({"job1"}, {200}, {"finished"}, 0..Pow2(num_wires), 0)
    \/ Reset
    \/ GenerateSamples

SpecSamples == InitSamples /\ [][NextSamples]_vars

----------------------------------------------------------------------------
(* Vocabulary of the properties.                                           *)

IsPrefix(a, b) == Len(a) <= Len(b) /\ SubSeq(b, 1, Len(a)) = a

InApply == pc \in {"apply", "submitted", "polling"}

Returned(e) == pc = "idle" /\ lastCall = [name |-> "apply", error |-> e]

(* The body of the submission for the device as it stands.                 *)
SubmissionBody ==
    [access_token |-> _api_key, no_qubits |-> num_wires,
     repetitions |-> shots, data |-> serialize(circuit)]

(* This step decodes a response: the submission's, if its status code is  *)
(* valid, or a poll's.                                                     *)
Decoded ==
    \/ pc = "submitted" /\ valid_status_code(response')
    \/ pc = "polling"

(* The body of a poll for the job the submission's response named.         *)
PollBody == [id |-> response.json.id, access_token |-> _api_key]

----------------------------------------------------------------------------
(* C1: whenever reset() was the last call -- after construction, apply()   *)
(* calls that succeeded or failed part-way, assignments to shots, earlier  *)
(* resets -- shots is the shot count given at construction (which no call  *)
(* changes), circuit is the empty list, circuit_json the empty string and  *)
(* samples None.                                                           *)
C1_ResetRestores ==
    /\ [](lastCall.name = "reset" =>
            /\ shots = _initial_shots
            /\ circuit = <<>>
            /\ circuit_json = EmptyString
            /\ samples = None)
    /\ [](lastCall.name = "__init__" => shots = _initial_shots)
    /\ [][_initial_shots' = _initial_shots]_vars

(* reset() has run on a device constructed with two shots.                 *)
C1_Witness ==
    /\ lastCall.name = "reset"
    /\ _initial_shots = 2 /\ shots = 2
    /\ circuit = <<>> /\ samples = None

----------------------------------------------------------------------------
(* C3: when the submission's response has no valid status code, apply()    *)
(* fails with the invalid-status error at once: the submission stays the   *)
(* only HTTP call of that apply() (no poll, no retry) and samples are left *)
(* as they were.                                                           *)
C3_InvalidStatusFails ==
    [][(pc = "submitted" /\ ~valid_status_code(response')) =>
          /\ pc' = "idle"
          /\ lastCall' = [name |-> "apply", error |-> "InvalidStatusError"]
          /\ Len(http) = 1
          /\ http' = http
          /\ samples' = samples
          /\ job' = job]_vars

(* apply() has failed on an invalid status while older samples are held.   *)
C3_Witness ==
    /\ Returned("InvalidStatusError")
    /\ ~valid_status_code(response)
    /\ Len(http) = 1
    /\ samples # None

----------------------------------------------------------------------------
(* C4: an apply() whose translation succeeds makes exactly one submission  *)
(* call, first, with access_token, no_qubits = num_wires, repetitions =    *)
(* shots and data = the serialized buffer; after every decoded response    *)
(* whose status is not "finished" (an "error" status too) it makes one     *)
(* more call, a poll with the id of the submission's response and the      *)
(* access token, and stays in the loop; on the first response whose status *)
(* is "finished" it makes no further call, stores that response's samples  *)
(* and returns.  So it leaves the loop exactly when a "finished" arrives,  *)
(* and with a gateway that finishes every job every apply() comes to an    *)
(* end.                                                                    *)
C4_SubmitThenPoll ==
    /\ [](InApply \/ Returned("none") =>
            /\ pc = "apply" => http = <<>>
            /\ pc = "submitted" => Len(http) = 1
            /\ pc = "polling" => Len(http) >= 2 /\ job.status # "finished"
            /\ pc # "apply" => http[1].body = SubmissionBody
            /\ \A i \in 2..Len(http) : http[i].body = PollBody
            /\ pc = "idle" => job.status = "finished" /\ samples = Some(job.samples))
    /\ [][(Decoded /\ job'.status # "finished") =>
            /\ pc' = "polling"
            /\ Len(http') = Len(http) + 1
            /\ samples' = samples]_vars
    /\ [][(Decoded /\ job'.status = "finished") =>
            /\ pc' = "idle"
            /\ http' = http
            /\ samples' = Some(job'.samples)
            /\ lastCall' = [name |-> "apply", error |-> "none"]]_vars
    /\ [][(pc = "polling" /\ pc' = "idle") => job'.status = "finished"]_vars
    /\ (InApply ~> ~InApply)

(* apply() has returned after two polls, the first answered "error" ...    *)
C4_Witness ==
    /\ Returned("none")
    /\ Len(http) = 3
    /\ shots = 2 /\ samples = Some(<<1, 0>>)
    /\ circuit # <<>>
    /\ response.json.id = "job2" /\ job.id = "job1"

----------------------------------------------------------------------------
(* Vocabulary of the translation properties.                               *)

StatePreparations == {"BasisState", "QubitStateVector"}

(* A state preparation stands at an index greater than 0.                  *)
LateStatePrep(ops) == \E i \in 2..Len(ops) : ops[i].name \in StatePreparations

Unmapped(op) == op.name \notin operations

(* The operations and then the rotations, as apply() walks them.           *)
Walk == args.operations \o args.rotations

HasUnmapped == \E i \in 1..Len(Walk) : Unmapped(Walk[i])

FirstUnmapped ==
    CHOOSE i \in 1..Len(Walk) :
        Unmapped(Walk[i]) /\ \A j \in 1..(i - 1) : ~Unmapped(Walk[j])

(* This step is apply() failing before the submission.                     *)
FailsWith(e) ==
    /\ pc' = "idle"
    /\ lastCall' = [name |-> "apply", error |-> e]
    /\ http' = <<>>

----------------------------------------------------------------------------
(* C2: whenever the operations given to apply() hold a BasisState or a     *)
(* QubitStateVector at an index greater than 0, apply() raises the         *)
(* ordering DeviceError, makes no HTTP call, and leaves samples and        *)
(* circuit_json as they were.                                              *)
C2_LateStatePrepRaises ==
    [][(pc = "apply" /\ LateStatePrep(args.operations)) =>
          /\ FailsWith("DeviceError")
          /\ samples' = samples
          /\ circuit_json' = circuit_json]_vars

----------------------------------------------------------------------------
(* C7: whenever apply() is given, in operations or rotations, an operation *)
(* without an entry in _operation_map (with 0, 1 or 2 parameters), it      *)
(* fails with a DeviceError before any HTTP call, and the buffer gains no  *)
(* entry for that operation: at most those of the operations before it.    *)
C7_UnmappedRaisesDeviceError ==
    [][(pc = "apply" /\ HasUnmapped) =>
          /\ FailsWith("DeviceError")
          /\ Len(circuit') <= Len(circuit)
                 + MostEntries(SubSeq(Walk, 1, FirstUnmapped - 1))]_vars

----------------------------------------------------------------------------
(* C10: no step of apply() removes or alters an entry of the buffer, at    *)
(* its start or when it fails: the buffer before the step is a prefix of   *)
(* the buffer after it, and only reset() empties a buffer.  The circuit    *)
(* an apply() submits is the buffer it found followed by the entries of    *)
(* its own operations and rotations (those it appends to an empty buffer). *)
(* A BasisState at index 0 is not refused for the entries already in the   *)
(* buffer: without a later state preparation there is no ordering error.   *)
C10_AppendOnly ==
    /\ [][InApply => IsPrefix(circuit, circuit')]_vars
    /\ [][(circuit # <<>> /\ circuit' = <<>>) => lastCall'.name = "reset"]_vars
    /\ [][(pc = "apply" /\ pc' = "submitted") =>
            /\ Len(http') = 1
            /\ http'[1].body.data = serialize(circuit \o
                   Translate(<<>>, args.operations, args.rotations).circuit)]_vars
    /\ [][(/\ pc = "apply"
           /\ circuit # <<>>
           /\ args.operations # <<>>
           /\ args.operations[1].name = "BasisState"
           /\ ~LateStatePrep(args.operations)) =>
            lastCall'.error # "DeviceError"]_vars

(* No apply() has succeeded, so the RX entry was left by one that failed;  *)
(* a second apply() starting with BasisState has submitted both entries.   *)
C10_Witness ==
    /\ pc = "submitted"
    /\ samples = None
    /\ circuit = <<[gate |-> "X", pars |-> <<Half>>, wires |-> <<0>>],
                   [gate |-> "X", pars |-> <<One>>, wires |-> <<0>>]>>
    /\ http[1].body.data = serialize(circuit)

----------------------------------------------------------------------------
(* Vocabulary of the gate properties: apply() called with one operation.   *)

OneOp == pc = "apply" /\ Len(args.operations) = 1 /\ args.rotations = <<>>

TheOp == args.operations[1]

Entry(gate, pars, wires) == [gate |-> gate, pars |-> pars, wires |-> wires]

VendorGates == {"X", "Y", "Z", "R", "MS"}

VendorName == [RX |-> "X", RY |-> "Y", RZ |-> "Z", R |-> "R", MS |-> "MS"]

OverPi(x) == Div(x, np_pi)

(* The angles the entry of an angle gate holds, R's divided by pi or not.  *)
StoredAngles(op, rDivided) ==
    IF op.name = "MS" THEN <<op.parameters[1]>>
    ELSE IF op.name = "R" /\ ~rDivided THEN op.parameters
    ELSE [i \in 1..Len(op.parameters) |-> OverPi(op.parameters[i])]

AngleGateStores(rDivided) ==
    (OneOp /\ TheOp.name \in DOMAIN VendorName) =>
        /\ pc' = "submitted"
        /\ circuit' = Append(circuit, Entry(VendorName[TheOp.name],
                                            StoredAngles(TheOp, rDivided),
                                            TheOp.wires))

----------------------------------------------------------------------------
(* C5 as stated:  every angle written to the buffer was divided by pi --   *)
(* for RX, RY, RZ and for both angles of R the entry holds parameter / pi  *)
(* (parameter 0 too), and for MS the parameter itself.                     *)
C5_AllAnglesDividedByPi == [][AngleGateStores(TRUE)]_vars

(* C5 as amended: for RX, RY, RZ the entry holds parameter / pi (parameter *)
(* 0 too); for MS it holds (parameter * pi) / pi, the parameter itself;    *)
(* and for R it holds both parameters as given, not divided by pi.         *)
C5_AnglesAsStored == [][AngleGateStores(FALSE)]_vars

(* An RX(pi/2) and an R(pi/2, 1) have been translated.                     *)
C5_Witness ==
    /\ pc = "submitted"
    /\ circuit = <<Entry("X", <<Half>>, <<0>>), Entry("R", <<HalfPi, One>>, <<0>>)>>

----------------------------------------------------------------------------
(* The reference translation of the gates without a vendor equivalent.     *)

RECURSIVE SetBits(_, _, _)
SetBits(b, w, i) ==
    IF i > Len(b) THEN <<>>
    ELSE (IF b[i] = 1 THEN <<Entry("X", <<One>>, <<w[i]>>)>> ELSE <<>>)
             \o SetBits(b, w, i + 1)

Reference(op) ==
    CASE op.name = "Hadamard" -> <<Entry("Y", <<Half>>, op.wires)>>
      [] op.name = "PauliX" -> <<Entry("X", <<One>>, op.wires)>>
      [] op.name = "PauliY" -> <<Entry("Y", <<One>>, op.wires)>>
      [] op.name = "PauliZ" -> <<Entry("Z", <<One>>, op.wires)>>
      [] op.name = "BasisState" -> SetBits(op.parameters[1], op.wires, 1)

(* C6: apply() with a Hadamard, a PauliX, PauliY or PauliZ, or a           *)
(* BasisState appends exactly the entries of the reference -- ["Y", 0.5,   *)
(* w]; ["X" / "Y" / "Z", 1.0, w]; one ["X", 1.0, [w[i]]] per set bit, in   *)
(* wire order, and nothing for a zero bit -- and goes on to submit.        *)
C6_ReferenceTranslation ==
    [][(OneOp /\ TheOp.name \in {"Hadamard", "PauliX", "PauliY", "PauliZ", "BasisState"}) =>
          /\ pc' = "submitted"
          /\ circuit' = circuit \o Reference(TheOp)]_vars

(* A Hadamard on wire 1 and then a BasisState have been translated.        *)
C6_Witness ==
    /\ pc = "submitted"
    /\ circuit = <<Entry("Y", <<Half>>, <<1>>), Entry("X", <<One>>, <<0>>)>>

----------------------------------------------------------------------------
(* C9: the gate name of every entry of the buffer is one of X, Y, Z, R,    *)
(* MS, never None, and no submitted circuit holds a null.                  *)
C9_VendorNamesOnly ==
    /\ \A i \in 1..Len(circuit) : circuit[i].gate \in VendorGates
    /\ \A i \in 1..Len(circuit_json) : circuit_json[i] # "null"
    /\ http # <<>> =>
           \A i \in 1..Len(http[1].body.data) : http[1].body.data[i] # "null"

(* A PauliZ and a PauliX (or a BasisState) on wire 1 have been submitted.  *)
C9_Witness ==
    /\ pc = "submitted"
    /\ circuit = <<Entry("Z", <<One>>, <<1>>), Entry("X", <<One>>, <<1>>)>>
    /\ http[1].body.data = serialize(circuit)

----------------------------------------------------------------------------
(* C8: after generate_samples() on n wires with samples s in 0..2^n-1, the *)
(* result has one row per sample and one column per wire, row j column k   *)
(* is floor(s[j] / 2^k) mod 2 (wire 0 is the least-significant bit), so    *)
(* the sum over k of row[j][k] * 2^k is s[j]; such a call succeeds, and no *)
(* generate_samples() changes samples or any other attribute.              *)

RECURSIVE Weighted(_, _)
Weighted(row, k) ==
    IF k > Len(row) THEN 0 ELSE row[k] * Pow2(k - 1) + Weighted(row, k + 1)

C8_BitUnpacking ==
    /\ [](lastCall = [name |-> "generate_samples", error |-> "none"] =>
            /\ samples # None
            /\ Len(result) = Len(samples[1])
            /\ Len(result) = shots
            /\ \A j \in 1..Len(result) :
                /\ Len(result[j]) = num_wires
                /\ \A k \in 0..(num_wires - 1) :
                       result[j][k + 1] = (samples[1][j] \div Pow2(k)) % 2
                /\ Weighted(result[j], 1) = samples[1][j])
    /\ [](lastCall.name = "generate_samples" =>
            (lastCall.error = "none" <=>
                (samples # None /\ \A j \in 1..Len(samples[1]) :
                                      samples[1][j] \in 0..(Pow2(num_wires) - 1))))
    /\ [][lastCall'.name = "generate_samples" =>
            UNCHANGED <<num_wires, shots, _initial_shots, _api_key, header, data,
                        circuit, circuit_json, samples>>]_vars

(* Samples 6 and 1 of a three-wire device have been unpacked.              *)
C8_Witness ==
    /\ lastCall = [name |-> "generate_samples", error |-> "none"]
    /\ num_wires = 3
    /\ samples = Some(<<6, 1>>)
    /\ result = <<<<0, 1, 1>>, <<1, 0, 0>>>>

====
